---- MODULE Spec2Model ----
(***************************************************************************)
(* recuerdame: the `precalculate` attribute macro and the code it emits.   *)
(*                                                                         *)
(* One declaration (attribute payload + annotated function) goes through  *)
(*   precalculate  ->  const_defs  ->  generate_table  ->  accessor calls  *)
(* The macro works on tokens; the constants and the table are evaluated    *)
(* by the compiler's constant evaluation; the accessor runs afterwards.    *)
(* Integers keep their Rust width, scaled down: usize/isize have           *)
(* UsizeBits bits and a parameter type is two bits narrower, as wide, or   *)
(* one bit wider (as i32, i64 and i128 are to a 64-bit usize).             *)
(***************************************************************************)
EXTENDS Integers, Sequences, FiniteSets, TLC

VARIABLES
    attr,             \* the attribute payload: a sequence of Meta entries
    func,             \* the annotated function: [inputs, output]
    overflow_checks,  \* build profile: are overflow checks compiled into fn bodies
    pc,               \* stage of the pipeline
    failure,          \* why compilation stopped ("" while it has not)
    expanded,         \* what precalculate returned (or its panic)
    consts,           \* per binding: MIN, MAX, SIZE (and whether SIZE overflowed)
    table,            \* the table under construction / LOOKUP_TABLE
    idx,              \* the loop variables a_idx, b_idx, .. of generate_table
    invoked,          \* the argument tuples generate_table called the renamed function with, in order
    written,          \* per table slot: how many times generate_table stored into it
    call              \* the last accessor call and its outcome

vars == <<attr, func, overflow_checks, pc, failure, expanded, consts, table, idx,
          invoked, written, call>>

\* Bounds of the model.
UsizeBits == 5
MaxMetas == 3

-----------------------------------------------------------------------------
(* Rust integer types and arithmetic *)

RECURSIVE Pow2(_)
Pow2(n) == IF n = 0 THEN 1 ELSE 2 * Pow2(n - 1)

IntTy(s, b) == [signed |-> s, bits |-> b]
usize == IntTy(FALSE, UsizeBits)
isize == IntTy(TRUE, UsizeBits)

TyMin(T) == IF T.signed THEN -Pow2(T.bits - 1) ELSE 0
TyMax(T) == IF T.signed THEN Pow2(T.bits - 1) - 1 ELSE Pow2(T.bits) - 1
InTy(T, x) == TyMin(T) <= x /\ x <= TyMax(T)
Values(T) == TyMin(T)..TyMax(T)

\* `x as T`: the value modulo 2^bits, read in T (truncation, sign or zero extension).
As(T, x) ==
    LET m == x % Pow2(T.bits)
    IN  IF T.signed /\ m >= Pow2(T.bits - 1) THEN m - Pow2(T.bits) ELSE m

\* The result x of `+` or `-` in type T: it traps when overflow checks are on,
\* and wraps modulo 2^bits when they are off.
Arith(T, x, checks) ==
    IF InTy(T, x) THEN [fault |-> FALSE, v |-> x]
    ELSE IF checks THEN [fault |-> TRUE, v |-> 0]
    ELSE [fault |-> FALSE, v |-> As(T, x)]

-----------------------------------------------------------------------------
(* The macro: precalculate(attr, item) *)

NoErr == <<>>
EmptyMap == [k \in {} |-> <<0, 0>>]

NameValue(k, r) == [kind |-> "NameValue", key |-> k, value |-> r]
Path(flag) == [kind |-> "Path", key |-> flag, value |-> <<0, 0>>]
List(name) == [kind |-> "List", key |-> name, value |-> <<0, 0>>]

\* One iteration of `for meta in metas`.
ParseMeta(st, meta) ==
    IF st.err # NoErr THEN st
    ELSE IF meta.kind = "NameValue" THEN
        IF meta.key \in DOMAIN st.range_map
        THEN [st EXCEPT !.err = <<"Duplicated key", meta.key>>]
        ELSE [st EXCEPT !.range_map =
                 [k \in (DOMAIN st.range_map) \cup {meta.key} |->
                     IF k = meta.key THEN meta.value ELSE st.range_map[k]]]
    ELSE IF meta.kind = "Path" THEN
        IF meta.key = "option" THEN [st EXCEPT !.options = @ \cup {"Option"}]
        ELSE IF meta.key = "keep" THEN [st EXCEPT !.options = @ \cup {"KeepOriginal"}]
        ELSE [st EXCEPT !.err = <<"Unknown option", meta.key>>]
    ELSE st

RECURSIVE ParseMetas(_, _)
ParseMetas(metas, st) ==
    IF metas = <<>> THEN st
    ELSE ParseMetas(Tail(metas), ParseMeta(st, Head(metas)))

\* A binder that validates the keys: it fails on a key naming no parameter.
IsIdentPat(arg) == arg.pat = "Ident"
BindArgsRejectStray(inputs, range_map, arg_info) ==
    LET ids == SelectSeq(inputs, IsIdentPat)
        unbound == {i \in 1..Len(ids) : ids[i].name \notin DOMAIN range_map}
    IN  IF \E k \in DOMAIN range_map : \A i \in 1..Len(inputs) : inputs[i].name # k
        THEN [err |-> <<"Key does not name an argument">>, arg_info |-> <<>>]
        ELSE IF unbound # {}
        THEN [err |-> <<"Argument does not have a specified range",
                        ids[CHOOSE i \in unbound : \A j \in unbound : i <= j].name>>,
              arg_info |-> <<>>]
        ELSE [err |-> NoErr,
              arg_info |-> arg_info \o [i \in 1..Len(ids) |->
                  [ident |-> ids[i].name, ty |-> ids[i].ty, range |-> range_map[ids[i].name]]]]

\* The loop over func.sig.inputs that builds arg_info.
RECURSIVE BindArgs(_, _, _)
BindArgs(inputs, range_map, arg_info) ==
    IF inputs = <<>> THEN [err |-> NoErr, arg_info |-> arg_info]
    ELSE LET arg == Head(inputs) IN
         IF arg.pat = "Ident" THEN
             IF arg.name \in DOMAIN range_map
             THEN BindArgs(Tail(inputs), range_map,
                      Append(arg_info, [ident |-> arg.name, ty |-> arg.ty,
                                        range |-> range_map[arg.name]]))
             ELSE [err |-> <<"Argument does not have a specified range", arg.name>>,
                   arg_info |-> <<>>]
         ELSE BindArgs(Tail(inputs), range_map, arg_info)

\* What `expanded` holds: the renamed function, the constants, generate_table,
\* the LOOKUP_TABLE constant, the accessor and the re-export.
Artifacts == {"func", "const_defs", "generate_table_fn", "lookup_table",
              "precalc_fn", "use"}

Panic(msg) ==
    [ok |-> FALSE, err |-> msg, arg_info |-> <<>>, options |-> {}, emitted |-> {}]

precalculate(metas, item) ==
    LET parsed == ParseMetas(metas, [err |-> NoErr, range_map |-> EmptyMap, options |-> {}])
    IN  IF parsed.err # NoErr THEN Panic(parsed.err)
        ELSE IF {"Option", "KeepOriginal"} \subseteq parsed.options
             THEN Panic(<<"precalculate macro may only take option or keep exclusively">>)
        ELSE IF item.output = "Default"
             THEN Panic(<<"Function must have a return type.">>)
        ELSE LET bound == BindArgs(item.inputs, parsed.range_map, <<>>)
             IN  IF bound.err # NoErr THEN Panic(bound.err)
                 ELSE [ok |-> TRUE, err |-> NoErr, arg_info |-> bound.arg_info,
                       options |-> parsed.options, emitted |-> Artifacts]

\* Which of opt_check / keep_check the accessor gets.
Mode(options) ==
    IF "Option" \in options THEN "Option"
    ELSE IF "KeepOriginal" \in options THEN "Keep"
    ELSE "Basic"

-----------------------------------------------------------------------------
(* The emitted code, evaluated by the compiler: constants and table *)

\* The original (renamed) function, a black box: its result names the arguments
\* it was called with. DEFAULT is PrecalcConst::DEFAULT, the placeholder.
original(args) == <<1>> \o args
DEFAULT == <<0>>

\* Return types that implement PrecalcConst: the integers and Option<T>.
HasPrecalcConst(output) == output \in {"Int", "Option"}

\* const X_RANGE, X_MIN, X_MAX, X_SIZE of one binding. X_SIZE is
\* (X_MAX as isize - X_MIN as isize + 1) as usize; in a const item the
\* subtraction and the addition are always overflow-checked.
const_defs(binding) ==
    LET lo == binding.range[1]
        hi == binding.range[2]
        d  == Arith(isize, As(isize, hi) - As(isize, lo), TRUE)
        s  == IF d.fault THEN d ELSE Arith(isize, d.v + 1, TRUE)
    IN  [MIN |-> lo, MAX |-> hi,
         SIZE |-> IF s.fault THEN 0 ELSE As(usize, s.v),
         fault |-> s.fault]

RECURSIVE Product(_)
Product(sizes) == IF sizes = <<>> THEN 1 ELSE Head(sizes) * Product(Tail(sizes))

Sizes(cs) == [k \in 1..Len(cs) |-> cs[k].SIZE]

\* table_type: [[ret; B_SIZE]; A_SIZE], first parameter outermost. An array
\* type larger than isize::MAX is rejected by the compiler.
table_type_fits(cs) == Product(Sizes(cs)) <= TyMax(isize)

\* The slots of the nested array: one index per dimension, each below its SIZE.
Slots(cs) ==
    {c \in [1..Len(cs) -> 0..TyMax(usize)] : \A k \in 1..Len(cs) : c[k] < cs[k].SIZE}

\* let mut table = [[DEFAULT; B_SIZE]; A_SIZE];
table_init_expr(cs) == [c \in Slots(cs) |-> DEFAULT]

\* let a = A_MIN + a_idx as T;  for every binding, inside the innermost loop.
value_calcs(arg_info, cs, ix, checks) ==
    [k \in 1..Len(arg_info) |->
        Arith(arg_info[k].ty, cs[k].MIN + As(arg_info[k].ty, ix[k]), checks)]

\* `x_idx += 1` at the end of loop k, and the loop conditions that follow: an
\* exhausted inner loop is left and the enclosing loop variable is incremented;
\* inner loops restart at 0 when they are entered again.
RECURSIVE Advance(_, _, _)
Advance(ix, cs, k) ==
    IF k = 0 THEN ix
    ELSE IF ix[k] + 1 < cs[k].SIZE \/ k = 1 THEN [ix EXCEPT ![k] = @ + 1]
    ELSE Advance([ix EXCEPT ![k] = 0], cs, k - 1)

\* The nested `while x_idx < X_SIZE` conditions all hold at ix.
InLoops(ix, cs) == \A k \in 1..Len(cs) : ix[k] < cs[k].SIZE

-----------------------------------------------------------------------------
(* The emitted accessor *)

\* A bounds predicate that tests the first parameter only.
bounds_check_first_only(cs, args) ==
    Len(cs) = 0 \/ (cs[1].MIN <= args[1] /\ args[1] <= cs[1].MAX)

\* A_MIN <= a && a <= A_MAX && .. && true
bounds_check_expr(cs, args) ==
    \A k \in 1..Len(cs) : cs[k].MIN <= args[k] /\ args[k] <= cs[k].MAX

\* let a_idx = (a - A_MIN) as usize;
index_calcs(arg_info, cs, args, checks) ==
    [k \in 1..Len(arg_info) |->
        LET d == Arith(arg_info[k].ty, args[k] - cs[k].MIN, checks)
        IN  [fault |-> d.fault, v |-> As(usize, d.v)]]

Returned(kind, val, indexed) ==
    [made |-> TRUE, kind |-> kind, val |-> val, indexed |-> indexed, panic |-> ""]
Panicked(why) ==
    [made |-> TRUE, kind |-> "Panic", val |-> <<>>, indexed |-> TRUE, panic |-> why]

\* An accessor whose index subtractions come before its bounds checks.
precalc_fn_index_first(mode, arg_info, cs, tbl, args, checks) ==
    LET ix == index_calcs(arg_info, cs, args, checks)
        at == [k \in 1..Len(ix) |-> ix[k].v]
    IN  IF \E k \in 1..Len(ix) : ix[k].fault
        THEN Panicked("attempt to subtract with overflow")
        ELSE IF mode = "Option" /\ ~bounds_check_expr(cs, args)
        THEN Returned("None", <<>>, TRUE)
        ELSE IF mode = "Keep" /\ ~bounds_check_expr(cs, args)
        THEN Returned("Value", original(args), TRUE)
        ELSE IF \E k \in 1..Len(ix) : at[k] >= cs[k].SIZE
        THEN Panicked("index out of bounds")
        ELSE Returned(IF mode = "Option" THEN "Some" ELSE "Value", tbl[at], TRUE)

\* pub const fn f(a: T, ..) -> R { opt_check keep_check index_calcs table_access }
precalc_fn(mode, arg_info, cs, tbl, args, checks) ==
    IF mode = "Option" /\ ~bounds_check_expr(cs, args)
    THEN Returned("None", <<>>, FALSE)
    ELSE IF mode = "Keep" /\ ~bounds_check_expr(cs, args)
    THEN Returned("Value", original(args), FALSE)
    ELSE LET ix == index_calcs(arg_info, cs, args, checks)
             at == [k \in 1..Len(ix) |-> ix[k].v]
         IN  IF \E k \in 1..Len(ix) : ix[k].fault
             THEN Panicked("attempt to subtract with overflow")
             ELSE IF \E k \in 1..Len(ix) : at[k] >= cs[k].SIZE
             THEN Panicked("index out of bounds")
             ELSE Returned(IF mode = "Option" THEN "Some" ELSE "Value", tbl[at], TRUE)

-----------------------------------------------------------------------------
(* Declarations the model is run on *)

Narrow(s) == IntTy(s, UsizeBits - 2)
ParamTypes == {IntTy(s, b) : s \in BOOLEAN, b \in {UsizeBits - 2, UsizeBits, UsizeBits + 1}}

\* A parameter `name: T` (Pat::Ident), or one written as another pattern:
\* `_: T` (Pat::Wild), which has no name a key could match.
Ident(n, T) == [pat |-> "Ident", name |-> n, ty |-> T]
Wild(T) == [pat |-> "Wild", name |-> "_", ty |-> T]

SeqsUpTo(S, n) == UNION {[1..k -> S] : k \in 0..n}

\* Endpoints worth declaring in T: around the limits of T, around zero and
\* around the limits of isize and usize.
ProbeValues(T) ==
    {x \in {TyMin(T), TyMin(T) + 1, -1, 0, 1, TyMax(T) - 1, TyMax(T),
            TyMin(isize) - 1, TyMin(isize), TyMax(isize), TyMax(isize) + 1,
            TyMax(usize), TyMax(usize) + 1} : InTy(T, x)}
ProbeRanges(T) == {<<lo, hi>> \in ProbeValues(T) \X ProbeValues(T) : lo <= hi}
SmallRanges(T) ==
    {<<lo, hi>> \in Values(T) \X Values(T) :
        /\ lo \in {TyMin(T), IF T.signed THEN -1 ELSE 1}
        /\ hi \in {lo, lo + 1, lo + 2}}

ModeFlags == {<<>>, <<Path("option")>>, <<Path("keep")>>}

\* Payloads of any shape over the parameters a and b of a narrow unsigned type:
\* the keys a, b and a stray z, the two flags, an unknown flag, a list entry.
KeyRange(k) == IF k = "a" THEN <<0, 1>> ELSE IF k = "b" THEN <<1, 2>> ELSE <<0, 0>>
MetaTokens ==
    {NameValue(k, KeyRange(k)) : k \in {"a", "b", "z"}}
        \cup {Path(f) : f \in {"option", "keep", "fast"}} \cup {List("cfg")}
Signatures ==
    LET a == Ident("a", Narrow(FALSE))
        b == Ident("b", Narrow(FALSE))
        w == Wild(Narrow(FALSE))
    IN  {<<>>, <<a>>, <<w>>, <<a, b>>, <<b, a>>, <<a, w>>, <<w, b>>, <<w, w>>}

InitShapes ==
    /\ attr \in SeqsUpTo(MetaTokens, MaxMetas)
    /\ func \in [inputs : Signatures, output : {"Default", "Int"}]

\* Well-formed declarations of one parameter, of every type and probe range.
InitOneParam ==
    \E T \in ParamTypes : \E r \in ProbeRanges(T) : \E m \in ModeFlags :
        /\ attr = <<NameValue("a", r)>> \o m
        /\ func = [inputs |-> <<Ident("a", T)>>, output |-> "Int"]

\* Well-formed declarations of two parameters of the narrow types.
InitTwoParams ==
    \E s1 \in BOOLEAN, s2 \in BOOLEAN : \E r1 \in SmallRanges(Narrow(s1)) :
    \E r2 \in SmallRanges(Narrow(s2)) : \E m \in ModeFlags : \E out \in {"Int", "Tuple"} :
        /\ attr = <<NameValue("a", r1), NameValue("b", r2)>> \o m
        /\ func = [inputs |-> <<Ident("a", Narrow(s1)), Ident("b", Narrow(s2))>>,
                   output |-> out]

NoCall == [args |-> <<>>,
           out |-> [made |-> FALSE, kind |-> "", val |-> <<>>, indexed |-> FALSE, panic |-> ""]]

Init ==
    /\ InitShapes \/ InitOneParam \/ InitTwoParams
    /\ overflow_checks \in BOOLEAN
    /\ pc = "declared"
    /\ failure = ""
    /\ expanded = Panic(NoErr)
    /\ consts = <<>>
    /\ table = <<>>
    /\ idx = <<>>
    /\ invoked = <<>>
    /\ written = <<>>
    /\ call = NoCall

-----------------------------------------------------------------------------
(* The pipeline *)

\* The compiler runs the macro on the declaration.
Expand ==
    /\ pc = "declared"
    /\ expanded' = precalculate(attr, func)
    /\ pc' = IF expanded'.ok THEN "expanded" ELSE "expand_failed"
    /\ UNCHANGED <<attr, func, overflow_checks, failure, consts, table, idx, invoked, written, call>>

\* The emitted module is compiled: the calls of the renamed function carry one
\* argument per binding, and the constants of every binding are evaluated.
ConstDefs ==
    /\ pc = "expanded"
    /\ LET arg_info == expanded.arg_info
           cs == [k \in 1..Len(arg_info) |-> const_defs(arg_info[k])]
       IN  IF Len(arg_info) # Len(func.inputs)
           THEN /\ failure' = "wrong number of arguments"
                /\ pc' = "compile_failed"
                /\ UNCHANGED consts
           ELSE /\ consts' = cs
                /\ failure' = IF \E k \in 1..Len(cs) : cs[k].fault
                              THEN "overflow in constant" ELSE ""
                /\ pc' = IF failure' = "" THEN "consts" ELSE "compile_failed"
    /\ UNCHANGED <<attr, func, overflow_checks, expanded, table, idx, invoked, written, call>>

\* generate_table() starts: the table is allocated and filled with DEFAULT.
TableInit ==
    /\ pc = "consts"
    /\ IF ~HasPrecalcConst(func.output)
       THEN /\ failure' = "PrecalcConst is not implemented"
            /\ pc' = "compile_failed"
            /\ UNCHANGED <<table, idx, written>>
       ELSE IF ~table_type_fits(consts)
       THEN /\ failure' = "table type too big"
            /\ pc' = "compile_failed"
            /\ UNCHANGED <<table, idx, written>>
       ELSE /\ table' = table_init_expr(consts)
            /\ written' = [c \in Slots(consts) |-> 0]
            /\ idx' = [k \in 1..Len(consts) |-> 0]
            /\ pc' = "generate_table"
            /\ UNCHANGED failure
    /\ UNCHANGED <<attr, func, overflow_checks, expanded, consts, invoked, call>>

\* One pass through the innermost loop body of generate_table (or the exit of
\* the loops): the values are rebuilt from the indices, the renamed function is
\* called and its result stored.
LoopBody ==
    /\ pc = "generate_table"
    /\ LET arg_info == expanded.arg_info
           vs == value_calcs(arg_info, consts, idx, overflow_checks)
       IN  IF ~InLoops(idx, consts)
           THEN /\ pc' = "built"
                /\ UNCHANGED <<failure, table, idx, invoked, written>>
           ELSE IF \E k \in 1..Len(vs) : vs[k].fault
           THEN /\ failure' = "overflow in generate_table"
                /\ pc' = "compile_failed"
                /\ UNCHANGED <<table, idx, invoked, written>>
           ELSE /\ invoked' = Append(invoked, [k \in 1..Len(vs) |-> vs[k].v])
                /\ table' = [table EXCEPT ![idx] = original([k \in 1..Len(vs) |-> vs[k].v])]
                /\ written' = [written EXCEPT ![idx] = @ + 1]
                /\ idx' = Advance(idx, consts, Len(consts))
                /\ pc' = IF Len(consts) = 0 THEN "built" ELSE "generate_table"
                /\ UNCHANGED failure
    /\ UNCHANGED <<attr, func, overflow_checks, expanded, consts, call>>

\* Arguments the accessor is called with: the limits of the type, both sides of
\* both endpoints, the values 2^UsizeBits away from MIN (same index after the
\* cast to usize), and with one parameter every declared value.
ArgValues(arg_info, cs, k) ==
    LET T == arg_info[k].ty
        probes == {TyMin(T), TyMax(T), cs[k].MIN - 1, cs[k].MIN, cs[k].MAX, cs[k].MAX + 1,
                   cs[k].MIN + Pow2(UsizeBits), cs[k].MIN - Pow2(UsizeBits)}
        declared == IF Len(arg_info) = 1 THEN cs[k].MIN..cs[k].MAX ELSE {}
    IN  {x \in probes \cup declared : InTy(T, x)}
Inputs(arg_info, cs) ==
    IF Len(arg_info) = 0 THEN {<<>>}
    ELSE IF Len(arg_info) = 1 THEN {<<x>> : x \in ArgValues(arg_info, cs, 1)}
    ELSE {<<x, y>> : x \in ArgValues(arg_info, cs, 1), y \in ArgValues(arg_info, cs, 2)}

\* The program calls the accessor.
Call ==
    /\ pc = "built"
    /\ \E args \in Inputs(expanded.arg_info, consts) :
           call' = [args |-> args,
                    out |-> precalc_fn(Mode(expanded.options), expanded.arg_info, consts,
                                       table, args, overflow_checks)]
    /\ UNCHANGED <<attr, func, overflow_checks, pc, failure, expanded, consts, table, idx,
                   invoked, written>>

Next == Expand \/ ConstDefs \/ TableInit \/ LoopBody \/ Call

Spec == Init /\ [][Next]_vars

-----------------------------------------------------------------------------
(* Vocabulary of the properties *)

Info == expanded.arg_info
TheMode == Mode(expanded.options)
Called == call.out.made

\* Every argument lies in the range declared for its parameter.
InDeclared(args) ==
    \A k \in 1..Len(Info) : Info[k].range[1] <= args[k] /\ args[k] <= Info[k].range[2]

\* The constants of the bindings have been evaluated.
ConstsEvaluated == Len(consts) = Len(Info) /\ pc \in {"consts", "compile_failed", "generate_table", "built"}

-----------------------------------------------------------------------------
(* C1 *)

\* C1: for every in-range argument tuple the accessor returns the result of the
\* original function on that tuple: bare in Basic and Keep mode, Some(..) in
\* Option mode; for every parameter type and up to both endpoints.
C1_InRangeEquivalence ==
    (Called /\ InDeclared(call.args)) =>
        /\ call.out.kind = IF TheMode = "Option" THEN "Some" ELSE "Value"
        /\ call.out.val = original(call.args)

-----------------------------------------------------------------------------
(* C2 *)

\* C2: in Keep mode, a tuple with an argument outside its declared range gets
\* the result of the original function on that tuple, without any index
\* subtraction or table access and without a fault.
C2_KeepFallback ==
    (Called /\ TheMode = "Keep" /\ ~InDeclared(call.args)) =>
        /\ call.out.kind = "Value"
        /\ call.out.val = original(call.args)
        /\ ~call.out.indexed
        /\ call.out.panic = ""

\* A Keep-mode call of two arguments, the first in range and the second at the
\* limit of its type, outside its range.
C2_Witness ==
    /\ Called /\ TheMode = "Keep" /\ Len(Info) = 2
    /\ Info[1].range[1] <= call.args[1] /\ call.args[1] <= Info[1].range[2]
    /\ call.args[2] > Info[2].range[2]
    /\ call.args[2] = TyMax(Info[2].ty)
    /\ call.out.kind = "Value"

-----------------------------------------------------------------------------
(* C3 *)

\* C3: in Option mode, a tuple with an argument outside its declared range gets
\* None, without any index subtraction or table access and without a fault.
C3_OptionAbsent ==
    (Called /\ TheMode = "Option" /\ ~InDeclared(call.args)) =>
        /\ call.out.kind = "None"
        /\ ~call.out.indexed
        /\ call.out.panic = ""

\* An Option-mode call one unit below the lower endpoint, where the index
\* subtraction would overflow the (unsigned) parameter type.
C3_Witness ==
    /\ Called /\ TheMode = "Option" /\ Len(Info) = 1
    /\ ~Info[1].ty.signed
    /\ call.args[1] = Info[1].range[1] - 1
    /\ call.out.kind = "None"

-----------------------------------------------------------------------------
(* C4 *)

\* C4: in Basic mode, every tuple with an argument outside its declared range
\* makes the accessor fault; it never returns a table value.
C4_BasicFaults ==
    (Called /\ TheMode = "Basic" /\ ~InDeclared(call.args)) => call.out.kind = "Panic"

-----------------------------------------------------------------------------
(* C5 *)

\* identity_1 .. identity_4 of the property test: no mode flag, every parameter
\* of the narrow signed type (i32) bound to the same range around zero
\* (-10..=10), returning its argument (a tuple of them for more than one).
IdentityRange == <<-1, 1>>
IsIdentityDecl ==
    /\ \A i \in 1..Len(attr) : attr[i].kind = "NameValue" /\ attr[i].value = IdentityRange
    /\ Len(attr) = Len(func.inputs) /\ Len(attr) >= 1
    /\ \A i \in 1..Len(func.inputs) : func.inputs[i] = Ident(attr[i].key, Narrow(TRUE))
    /\ func.output = IF Len(func.inputs) = 1 THEN "Int" ELSE "Tuple"

\* C5: the identity accessors of the property test never fail and return the
\* tuple of their arguments, for arguments over the full range of the type.
C5_IdentityNeverFails ==
    (IsIdentityDecl /\ Called) =>
        (call.out.kind = "Value" /\ call.out.val = original(call.args))

-----------------------------------------------------------------------------
(* C6 *)

IsKey(i, k) == attr[i].kind = "NameValue" /\ attr[i].key = k
DuplicateKey == \E i, j \in 1..Len(attr) : i < j /\ IsKey(i, attr[j].key) /\ IsKey(j, attr[j].key)
UnknownFlag == \E i \in 1..Len(attr) : attr[i].kind = "Path" /\ attr[i].key \notin {"option", "keep"}
BothFlags == \A f \in {"option", "keep"} : \E i \in 1..Len(attr) : attr[i] = Path(f)
UnboundParameter == \E p \in 1..Len(func.inputs) : \A i \in 1..Len(attr) : ~IsKey(i, func.inputs[p].name)
NoReturnType == func.output = "Default"
Misdeclared == DuplicateKey \/ UnknownFlag \/ BothFlags \/ UnboundParameter \/ NoReturnType

\* C6: a declaration with a duplicated key, an unknown flag, both flags, a
\* parameter without a range binding or no return type does not expand, and
\* nothing is emitted for it.
C6_MisdeclaredNeverExpands ==
    (pc # "declared" /\ Misdeclared) => (~expanded.ok /\ expanded.emitted = {})

-----------------------------------------------------------------------------
(* C7 *)

\* C7: when binding succeeds, arg_info holds exactly one binding per parameter
\* of the function, in the order of the signature.
C7_OneBindingPerParameter ==
    expanded.ok =>
        /\ Len(Info) = Len(func.inputs)
        /\ \A k \in 1..Len(Info) :
               Info[k].ident = func.inputs[k].name /\ Info[k].ty = func.inputs[k].ty

-----------------------------------------------------------------------------
(* C8 *)

\* C8: the cardinality constant of every binding START..=END is END - START + 1,
\* and evaluating it does not overflow, whatever the parameter type.
C8_SizeIsCardinality ==
    ConstsEvaluated =>
        \A k \in 1..Len(consts) :
            /\ ~consts[k].fault
            /\ consts[k].SIZE = Info[k].range[2] - Info[k].range[1] + 1

-----------------------------------------------------------------------------
(* C9 *)

\* A range entry whose key names no parameter of the function.
IsStray(meta) ==
    /\ meta.kind = "NameValue"
    /\ \A p \in 1..Len(func.inputs) : func.inputs[p].name # meta.key
Strays == {i \in 1..Len(attr) : IsStray(attr[i])}
NotStray(meta) == ~IsStray(meta)
WithoutStrays == SelectSeq(attr, NotStray)

-----------------------------------------------------------------------------
(* C10 *)

\* C10: construction and lookup use the same mapping: the construction step
\* MIN + (i as T) does not overflow, the built table holds at slot [i_1]..[i_k]
\* the result of the original function at (MIN_1 + i_1, .., MIN_k + i_k), and
\* the index subtraction of the accessor does not overflow on a declared value.
C10_ConstructionMatchesLookup ==
    /\ failure # "overflow in generate_table"
    /\ pc = "built" =>
           \A c \in DOMAIN table :
               table[c] = original([k \in 1..Len(consts) |-> consts[k].MIN + c[k]])
    /\ (Called /\ InDeclared(call.args)) => call.out.panic # "attempt to subtract with overflow"

-----------------------------------------------------------------------------
(* C11 *)

\* The coordinates of the declared domain: one value of every declared range.
DeclaredDomain ==
    IF Len(Info) = 0 THEN {<<>>}
    ELSE IF Len(Info) = 1 THEN {<<x>> : x \in Info[1].range[1]..Info[1].range[2]}
    ELSE {<<x, y>> : x \in Info[1].range[1]..Info[1].range[2],
                     y \in Info[2].range[1]..Info[2].range[2]}

\* u comes before v when the first parameter is iterated by the outermost loop.
OuterFirst(u, v) ==
    \E k \in 1..Len(u) : u[k] < v[k] /\ \A j \in 1..(k - 1) : u[j] = v[j]

\* C11: generate_table runs to completion for every declared domain; it calls
\* the original function exactly once per coordinate, first parameter
\* outermost; it writes every slot exactly once and leaves no DEFAULT; and the
\* table stays as built through the accessor calls that follow.
C11_TableBuiltOnce ==
    /\ failure # "overflow in generate_table"
    /\ pc = "generate_table" => Len(invoked) <= Cardinality(DeclaredDomain)
    /\ pc = "built" =>
           /\ Len(invoked) = Cardinality(DeclaredDomain)
           /\ \A v \in DeclaredDomain : \E i \in 1..Len(invoked) : invoked[i] = v
           /\ \A i, j \in 1..Len(invoked) : i < j => OuterFirst(invoked[i], invoked[j])
           /\ \A c \in DOMAIN table : written[c] = 1 /\ table[c] # DEFAULT

====
